---- MODULE Spec2Model ----
(***************************************************************************)
(* Model of realtor_agent/api.py: the fetch -> concat -> derive -> filter  *)
(* -> sort -> persist pipeline behind POST /run-analysis, and the read     *)
(* path GET /data that serves the CSV named by the global latest_csv.      *)
(*                                                                         *)
(* Both endpoints are `async def` bodies without an await, so each runs    *)
(* to completion on the event loop: one action per handler.                *)
(***************************************************************************)
EXTENDS Integers, Sequences, FiniteSets, TLC

VARIABLES
    latest_csv,   \* the global latest_csv: None, or the date naming the CSV path
    files,        \* the data directory: date |-> file real_results_<date>.csv
    today,        \* date.today()
    provider,     \* run_analysis alone: the provider's answer for each region
    filt,         \* run_analysis alone: its Filter argument
    df,           \* run_analysis alone: the concatenated frame
    last,         \* the last event: handler, its requests to the provider
                  \* (region and success), HTTP status, cause, JSON body
    lastGood,     \* history: the body of the most recent run that returned 200
    removed       \* history: an artifact was removed from storage externally

vars == <<latest_csv, files, today, provider, filt, df, last,
          lastGood, removed>>

----------------------------------------------------------------------------
(* Bounds *)

MaxDate == 2      \* calendar dates are 1..MaxDate
MaxRows == 2      \* listings over all regions in a call of run_analysis alone
MaxListings == 1  \* listings over all regions in a run of the pipeline

Dates == 1..MaxDate

----------------------------------------------------------------------------
(* Configuration *)

\* REGION_POLYGON_MAP.items(): dict insertion order
Regions == <<"south_bay", "bandao">>

RegionIds == {Regions[i] : i \in DOMAIN Regions}

\* latest_csv: Path = None
None == 0

\* cols of run_analysis
Cols == {"address", "region", "price", "livingArea", "lotAreaValue",
         "bathrooms", "bedrooms", "daysOnZillow", "price_per_sqft"}

----------------------------------------------------------------------------
(* Values *)

\* a missing value of an object column (NaN / None in the frame)
NaN == "<NaN>"
\* JSON null in a response body
JNull == "<null>"

\* price / livingArea on float64, kept exact as a reduced fraction <<n, d>>;
\* x/0 is inf = <<1, 0>> and 0/0 is nan = <<0, 0>> (numpy division, no raise)
RECURSIVE GCD(_, _)
GCD(a, b) == IF b = 0 THEN a ELSE GCD(b, a % b)

Inf == <<1, 0>>
NanF == <<0, 0>>

Divide(p, a) ==
    IF a = 0 THEN (IF p = 0 THEN NanF ELSE Inf)
    ELSE LET g == GCD(p, a) IN <<p \div g, a \div g>>

----------------------------------------------------------------------------
(* fetch_region_df *)

\* an answer of the provider to one request: the props array of the JSON
\* body, or a failure (the request raises: transport, status, timeout, parse)
Answer(props) == [ok |-> TRUE, props |-> props]

Fail == [ok |-> FALSE, props |-> <<>>]

\* df = json_normalize(props); df["region"] = region
FetchRegionDf(region, props) ==
    [i \in 1..Len(props) |->
        [c \in (DOMAIN props[i]) \cup {"region"} |->
            IF c = "region" THEN region ELSE props[i][c]]]

----------------------------------------------------------------------------
(* run_analysis *)

\* the regions requested, in order, up to and including the first failure
RECURSIVE Requested(_, _)
Requested(p, i) ==
    IF i > Len(Regions) THEN <<>>
    ELSE IF ~p[Regions[i]].ok THEN <<[region |-> Regions[i], ok |-> FALSE]>>
    ELSE <<[region |-> Regions[i], ok |-> TRUE]>> \o Requested(p, i + 1)

FetchFailed(p) == \E i \in DOMAIN Regions : ~p[Regions[i]].ok

\* dfs = [fetch_region_df(r, poly) for r, poly in REGION_POLYGON_MAP.items()]
Dfs(p) == [i \in DOMAIN Regions |-> FetchRegionDf(Regions[i], p[Regions[i]].props)]

\* pd.concat(dfs, ignore_index=True)
RECURSIVE ConcatFrom(_, _)
ConcatFrom(dfs, i) ==
    IF i > Len(dfs) THEN <<>> ELSE dfs[i] \o ConcatFrom(dfs, i + 1)

\* (mutant) frames concatenated last region first
RECURSIVE ConcatBackFrom(_, _)
ConcatBackFrom(dfs, i) ==
    IF i < 1 THEN <<>> ELSE dfs[i] \o ConcatBackFrom(dfs, i - 1)

ConcatReversed(dfs) == ConcatBackFrom(dfs, Len(dfs))

Concat(dfs) == ConcatFrom(dfs, 1)

\* df["price_per_sqft"] = df["price"] / df["livingArea"]
Derive(frame) ==
    [i \in 1..Len(frame) |->
        [c \in (DOMAIN frame[i]) \cup {"price_per_sqft"} |->
            IF c = "price_per_sqft"
            THEN Divide(frame[i].price, frame[i].livingArea)
            ELSE frame[i][c]]]

\* (mutant) between with inclusive="neither"
BetweenExclusive(x, left, right) == left < x /\ x < right

\* Series.between(left, right): inclusive="both"
Between(x, left, right) == left <= x /\ x <= right

\* keep = between(...) & (lotAreaValue > min_lot_area) & (daysOnZillow < max)
Keep(row, f) ==
    /\ Between(row.price, f.min_price, f.max_price)
    /\ row.lotAreaValue > f.min_lot_area
    /\ row.daysOnZillow < f.max_days_on_zillow

Perms(n) == {o \in [1..n -> 1..n] : \A i, j \in 1..n : i # j => o[i] # o[j]}

\* df.sort_values("daysOnZillow"): kind defaults to "quicksort", which does
\* not keep the order of equal keys; every ascending order of the index is
\* an outcome.
SortValues(frame) ==
    {o \in Perms(Len(frame)) :
        \A i, j \in 1..Len(frame) :
            i < j => frame[o[i]].daysOnZillow <= frame[o[j]].daysOnZillow}

\* .loc[keep, cols] on the sorted frame: the boolean mask is aligned on the
\* index, rows stay in sorted order, columns are restricted to cols
RECURSIVE LocFrom(_, _, _, _)
LocFrom(frame, o, f, j) ==
    IF j > Len(frame) THEN <<>>
    ELSE (IF Keep(frame[o[j]], f)
          THEN <<[c \in Cols |-> frame[o[j]][c]]>>
          ELSE <<>>) \o LocFrom(frame, o, f, j + 1)

Loc(frame, o, f) == LocFrom(frame, o, f, 1)

\* (mutant) a failed fetch is swallowed and its region contributes no rows
RunAnalysisPartial(f, p) ==
    LET cat == Concat(Dfs(p)) IN
    IF Len(cat) = 0
    THEN [ok |-> FALSE, cause |-> "KeyError", df |-> cat, outs |-> {}]
    ELSE LET d == Derive(cat) IN
         [ok |-> TRUE, cause |-> "", df |-> cat,
          outs |-> {Loc(d, o, f) : o \in SortValues(d)}]

\* run_analysis(filt): the frames it can return on the answers p, or the
\* exception it raises
RunAnalysis(f, p) ==
    IF FetchFailed(p)
    THEN [ok |-> FALSE, cause |-> "FetchError", df |-> <<>>, outs |-> {}]
    ELSE LET cat == Concat(Dfs(p)) IN
         IF Len(cat) = 0
         THEN \* no region returned a listing: the frame has no "price" column
              [ok |-> FALSE, cause |-> "KeyError", df |-> cat, outs |-> {}]
         ELSE LET d == Derive(cat) IN
              [ok |-> TRUE, cause |-> "", df |-> cat,
               outs |-> {Loc(d, o, f) : o \in SortValues(d)}]

----------------------------------------------------------------------------
(* Persistence: DataFrame.to_csv, pd.read_csv, DataFrame.to_json *)

TextCols == {"address", "region"}

\* the strings read_csv takes for a missing value (keep_default_na=True)
NaValues == {"", "#N/A", "#N/A N/A", "#NA", "-1.#IND", "-1.#QNAN", "-NaN",
             "-nan", "1.#IND", "1.#QNAN", "<NA>", "N/A", "NA", "NULL", "NaN",
             "None", "n/a", "nan", "null"}

\* to_csv(index=False): na_rep is "", a string is written as it is; a number
\* is written in decimal (repr for a float, "inf" for inf) and stands here
\* for its own text
CsvCell(c, v) == IF c \in TextCols /\ v = NaN THEN "" ELSE v

ToCsv(frame) ==
    [i \in 1..Len(frame) |-> [c \in Cols |-> CsvCell(c, frame[i][c])]]

\* read_csv: a field that spells a missing value is NaN, other text is kept,
\* decimal text is the number (the empty field of a float column is nan)
ParseCell(c, t) == IF c \in TextCols /\ t \in NaValues THEN NaN ELSE t

ReadCsv(rows) ==
    [i \in 1..Len(rows) |-> [c \in Cols |-> ParseCell(c, rows[i][c])]]

\* to_json(orient="records") then json.loads: NaN, None and the non-finite
\* floats are null
JsonCell(c, v) ==
    IF c \in TextCols THEN (IF v = NaN THEN JNull ELSE v)
    ELSE IF c = "price_per_sqft" /\ v[2] = 0 THEN NanF
    ELSE v

ToJson(frame) ==
    [i \in 1..Len(frame) |-> [c \in Cols |-> JsonCell(c, frame[i][c])]]

\* a path of the data directory: absent, or a file with what was written
NoFile == [exists |-> FALSE, header |-> FALSE, rows |-> <<>>, complete |-> FALSE]

Written(rows) ==
    [exists |-> TRUE, header |-> TRUE, rows |-> rows, complete |-> TRUE]

\* what a to_csv that raises after open(path, "w") leaves: the truncated
\* file, with nothing flushed or with the header and some leading rows
Truncated(rows) ==
    {[exists |-> TRUE, header |-> FALSE, rows |-> <<>>, complete |-> FALSE]}
    \cup {[exists |-> TRUE, header |-> TRUE, rows |-> SubSeq(rows, 1, k),
           complete |-> FALSE] : k \in 0..(Len(rows) - 1)}

\* df.to_csv(path, index=False) on the file `old`: it returns, or it raises
\* at open (the path is left as it was) or while writing
ToCsvOutcomes(old, frame) ==
    {[ok |-> TRUE, file |-> Written(ToCsv(frame))]}
    \cup {[ok |-> FALSE, file |-> old]}
    \cup {[ok |-> FALSE, file |-> t] : t \in Truncated(ToCsv(frame))}

----------------------------------------------------------------------------
(* Inputs *)

Filters ==
    [min_price : 1..3, max_price : 1..3, min_lot_area : {1},
     max_days_on_zillow : {2}]

\* the listings of the pure-function specification: every price around the
\* bounds, lot areas at and above min_lot_area, days below and at the bound
AnalysisProps ==
    [address : {"12 Main St"}, price : 1..3, livingArea : {1},
     lotAreaValue : {1, 2}, bathrooms : {2}, bedrooms : {3},
     daysOnZillow : {0, 1, 2}]

\* the listings of the pipeline specification, each lying in one region: one
\* with an address, one whose address is the empty string
PipelineProps ==
    [region \in RegionIds |->
        [address : IF region = "south_bay" THEN {"12 Main St"} ELSE {""},
         price : {2}, livingArea : {1}, lotAreaValue : {2}, bathrooms : {2},
         bedrooms : {3}, daysOnZillow : {1}]]

\* the filter of the pipeline specification keeps PipelineProps
PipelineFilters ==
    [min_price : {1}, max_price : {2}, min_lot_area : {1},
     max_days_on_zillow : {2}]

SeqsUpTo(S, n) == UNION {[1..k -> S] : k \in 0..n}

\* the provider's answers: per region a failure or a list of at most n
\* listings of the region's pool, at most n in all
AnswersOf(pool, n) ==
    {p \in [RegionIds ->
                UNION {{Answer(a) : a \in SeqsUpTo(pool[r], n)} : r \in RegionIds}
                \cup {Fail}] :
        /\ \A r \in RegionIds :
              \A i \in 1..Len(p[r].props) : p[r].props[i] \in pool[r]
        /\ Len(p["south_bay"].props) + Len(p["bandao"].props) <= n}

AnalysisPool == [region \in RegionIds |-> AnalysisProps]

PipelineAnswers == AnswersOf(PipelineProps, MaxListings)

AnalysisAnswers == AnswersOf(AnalysisPool, MaxRows)

----------------------------------------------------------------------------
(* State *)

Event(op, reqs, status, cause, body) ==
    [op |-> op, requests |-> reqs, status |-> status, cause |-> cause,
     body |-> body]

NoEvent == Event("none", <<>>, 0, "", <<>>)

EnvEvent == Event("env", <<>>, 0, "", <<>>)

Init ==
    /\ latest_csv = None
    /\ files = [d \in Dates |-> NoFile]
    /\ today = 1
    /\ provider = [r \in RegionIds |-> Answer(<<>>)]
    /\ filt \in PipelineFilters
    /\ df = <<>>
    /\ last = NoEvent
    /\ lastGood = [any |-> FALSE, body |-> <<>>]
    /\ removed = FALSE

----------------------------------------------------------------------------
(* POST /run-analysis *)

\* except Exception as e: raise HTTPException(status_code=500, detail=str(e))
Raise500(reqs, cause) == last' = Event("run", reqs, 500, cause, <<>>)

\* the statements of the try block after run_analysis returned `out`:
\*   latest_csv = DATA_PATH / f"real_results_{today}.csv"
\*   df.to_csv(latest_csv, index=False)
\*   return json.loads(df.to_json(orient="records"))
SaveAndReturn(reqs, out) ==
    \E w \in ToCsvOutcomes(files[today], out) :
        /\ latest_csv' = today
        /\ files' = [files EXCEPT ![today] = w.file]
        /\ IF w.ok
           THEN /\ last' = Event("run", reqs, 200, "", ToJson(out))
                /\ lastGood' = [any |-> TRUE, body |-> ToJson(out)]
           ELSE /\ Raise500(reqs, "PersistFailed")
                /\ UNCHANGED lastGood

RunAnalysisEndpoint ==
    \E p \in PipelineAnswers, f \in PipelineFilters :
        LET r == RunAnalysis(f, p) IN
        /\ UNCHANGED <<today, provider, filt, df, removed>>
        /\ IF r.ok
           THEN \E out \in r.outs : SaveAndReturn(Requested(p, 1), out)
           ELSE /\ Raise500(Requested(p, 1), r.cause)
                /\ UNCHANGED <<latest_csv, files, lastGood>>

----------------------------------------------------------------------------
(* GET /data *)

\* (mutant) a load that finds no file forgets the path
GetLatestDataForgetting ==
    /\ IF latest_csv # None /\ files[latest_csv].exists
       THEN /\ IF files[latest_csv].header
               THEN last' = Event("load", <<>>, 200, "",
                                  ToJson(ReadCsv(files[latest_csv].rows)))
               ELSE last' = Event("load", <<>>, 500, "EmptyDataError", <<>>)
            /\ UNCHANGED latest_csv
       ELSE /\ last' = Event("load", <<>>, 404, "Run the analysis first.",
                             <<>>)
            /\ latest_csv' = None
    /\ UNCHANGED <<files, today, provider, filt, df, lastGood, removed>>

GetLatestData ==
    /\ IF latest_csv # None /\ files[latest_csv].exists
       THEN IF files[latest_csv].header
            THEN last' = Event("load", <<>>, 200, "",
                               ToJson(ReadCsv(files[latest_csv].rows)))
            ELSE \* read_csv of an empty file raises EmptyDataError
                 last' = Event("load", <<>>, 500, "EmptyDataError", <<>>)
       ELSE last' = Event("load", <<>>, 404, "Run the analysis first.", <<>>)
    /\ UNCHANGED <<latest_csv, files, today, provider, filt, df, lastGood,
                   removed>>

----------------------------------------------------------------------------
(* Environment *)

\* the calendar date advances between requests
NextDay ==
    /\ today < MaxDate
    /\ today' = today + 1
    /\ last' = EnvEvent
    /\ UNCHANGED <<latest_csv, files, provider, filt, df, lastGood,
                   removed>>

\* a file of the data directory is deleted from outside the process
RemoveArtifact ==
    \E d \in Dates :
        /\ files[d].exists
        /\ files' = [files EXCEPT ![d] = NoFile]
        /\ removed' = TRUE
        /\ last' = EnvEvent
        /\ UNCHANGED <<latest_csv, today, provider, filt, df, lastGood>>

Next == RunAnalysisEndpoint \/ GetLatestData \/ NextDay \/ RemoveArtifact

Spec == Init /\ [][Next]_vars

----------------------------------------------------------------------------
(* run_analysis as a function: the inputs are drawn at the start *)

InitAnalysis ==
    /\ latest_csv = None
    /\ files = [d \in Dates |-> NoFile]
    /\ today = 1
    /\ provider \in AnalysisAnswers
    /\ filt \in Filters
    /\ df = <<>>
    /\ last = NoEvent
    /\ lastGood = [any |-> FALSE, body |-> <<>>]
    /\ removed = FALSE

\* one call run_analysis(filt); `last` holds the frame it returns
RunAnalysisCall ==
    /\ last.op = "none"
    /\ LET r == RunAnalysis(filt, provider) IN
       /\ df' = r.df
       /\ IF r.ok
          THEN \E out \in r.outs :
                 last' = Event("run_analysis", Requested(provider, 1), 0, "",
                               out)
          ELSE last' = Event("run_analysis", Requested(provider, 1), 0,
                             r.cause, <<>>)
    /\ UNCHANGED <<latest_csv, files, today, provider, filt, lastGood, removed>>

NextAnalysis == RunAnalysisCall

SpecAnalysis == InitAnalysis /\ [][NextAnalysis]_vars

----------------------------------------------------------------------------
(* Properties *)

IsRun(e) == e.op = "run"

IsLoad(e) == e.op = "load"

IsAnalysis(e) == e.op = "run_analysis"

\* a request of the handler failed
SomeFetchFailed(e) == \E i \in DOMAIN e.requests : ~e.requests[i].ok

\* C1: a run whose storage write fails leaves latest_csv as it was before
\* the run, whatever it was.
C1_PersistFailedKeepsPointer ==
    [][(IsRun(last') /\ last'.cause = "PersistFailed")
          => latest_csv' = latest_csv]_vars

\* C2: a run in which the fetch of a region fails answers with an error and
\* no rows, writes no file and leaves latest_csv as it was.
C2_FetchFailureAborts ==
    [][(IsRun(last') /\ SomeFetchFailed(last'))
          => /\ last'.status = 500
             /\ last'.body = <<>>
             /\ files' = files
             /\ latest_csv' = latest_csv]_vars

\* C2 witness: south_bay was fetched, bandao failed, and an artifact of an
\* earlier run is still what latest_csv names.
C2_Witness ==
    /\ IsRun(last)
    /\ last.requests = <<[region |-> "south_bay", ok |-> TRUE],
                         [region |-> "bandao", ok |-> FALSE]>>
    /\ latest_csv # None
    /\ files[latest_csv].complete

\* C3: whenever a handler can read latest_csv, it is None or names a file
\* that exists and was written completely (files deleted from outside set
\* aside).
C3_PointerNamesCompleteArtifact ==
    (latest_csv # None /\ ~removed)
        => (files[latest_csv].exists /\ files[latest_csv].complete)

\* C4: a load right after a successful run returns the rows the run returned.
C4_RoundTrip ==
    [][(IsRun(last) /\ last.status = 200 /\ IsLoad(last'))
          => (last'.status = 200 /\ last'.body = last.body)]_vars

\* C5: load answers NotFound when no run has succeeded or the file
\* latest_csv names does not exist, and otherwise the contents of that file.
C5_LoadLatest ==
    IsLoad(last) =>
        IF ~lastGood.any \/ latest_csv = None \/ ~files[latest_csv].exists
        THEN last.status = 404
        ELSE /\ last.status = 200
             /\ last.body = ToJson(ReadCsv(files[latest_csv].rows))

\* the columns of a concatenated row
RawCols == Cols \ {"price_per_sqft"}

Raw(row) == [c \in RawCols |-> row[c]]

\* the filter as the specification words it
Kept(row) ==
    /\ filt.min_price <= row.price
    /\ row.price <= filt.max_price
    /\ row.lotAreaValue > filt.min_lot_area
    /\ row.daysOnZillow < filt.max_days_on_zillow

Count(frame, x) == Cardinality({i \in 1..Len(frame) : Raw(frame[i]) = x})

\* C6: the returned frame holds a concatenated row as often as the
\* concatenated frame does when min_price <= price <= max_price,
\* lotAreaValue > min_lot_area and daysOnZillow < max_days all hold, and not
\* at all otherwise.
C6_FilterExact ==
    (IsAnalysis(last) /\ last.cause = "") =>
        \A x \in {Raw(df[i]) : i \in 1..Len(df)}
                 \cup {Raw(last.body[i]) : i \in 1..Len(last.body)} :
            Count(last.body, x) = IF Kept(x) THEN Count(df, x) ELSE 0

\* C6 witness: a row with price = max_price is returned and a row inside the
\* price bounds with lotAreaValue = min_lot_area or daysOnZillow = max_days
\* is dropped.
C6_Witness ==
    /\ IsAnalysis(last) /\ last.cause = ""
    /\ \E i \in 1..Len(last.body) : last.body[i].price = filt.max_price
    /\ \E i \in 1..Len(df) :
          /\ filt.min_price <= df[i].price /\ df[i].price <= filt.max_price
          /\ \/ df[i].lotAreaValue = filt.min_lot_area
             \/ df[i].daysOnZillow = filt.max_days_on_zillow
          /\ Count(last.body, df[i]) = 0

\* C7: the returned frame is the kept rows in ascending daysOnZillow, rows of
\* equal daysOnZillow in the order of the concatenated frame.
C7_SortedStable ==
    (IsAnalysis(last) /\ last.cause = "") =>
        \E m \in [1..Len(last.body) -> 1..Len(df)] :
            /\ {m[k] : k \in 1..Len(last.body)}
                  = {i \in 1..Len(df) : Kept(df[i])}
            /\ \A k \in 1..Len(last.body) : Raw(last.body[k]) = df[m[k]]
            /\ \A j, k \in 1..Len(last.body) :
                  j < k =>
                     \/ last.body[j].daysOnZillow < last.body[k].daysOnZillow
                     \/ /\ last.body[j].daysOnZillow = last.body[k].daysOnZillow
                        /\ m[j] < m[k]

\* C8: the concatenated frame is south_bay's listings in the order the
\* provider returned them, then bandao's, each stamped with its region.
C8_ConcatOrder ==
    (IsAnalysis(last) /\ last.cause # "FetchError") =>
        LET a == provider["south_bay"].props
            b == provider["bandao"].props
        IN  /\ Len(df) = Len(a) + Len(b)
            /\ \A i \in 1..Len(df) :
                  IF i <= Len(a)
                  THEN /\ df[i].region = "south_bay"
                       /\ \A c \in DOMAIN a[i] : df[i][c] = a[i][c]
                  ELSE /\ df[i].region = "bandao"
                       /\ \A c \in DOMAIN b[i - Len(a)] :
                             df[i][c] = b[i - Len(a)][c]

\* C8 witness: both regions returned a listing and the two differ.
C8_Witness ==
    /\ IsAnalysis(last) /\ last.cause = ""
    /\ Len(provider["south_bay"].props) = 1
    /\ Len(provider["bandao"].props) = 1
    /\ provider["south_bay"].props[1] # provider["bandao"].props[1]

\* C9: a load makes no request to the provider and leaves latest_csv and
\* every file as they were, whatever it answers.
C9_LoadLatestReadOnly ==
    [][IsLoad(last')
          => /\ last'.requests = <<>>
             /\ latest_csv' = latest_csv
             /\ files' = files]_vars

\* C9 witness: a load answered NotFound although latest_csv names a path.
C9_Witness == IsLoad(last) /\ last.status = 404 /\ latest_csv # None

\* C10: once a run has succeeded and no file was deleted from outside, a
\* load returns the rows of the most recent successful run.
C10_LoadReturnsLastSuccess ==
    (IsLoad(last) /\ lastGood.any /\ ~removed)
        => (last.status = 200 /\ last.body = lastGood.body)

\* what GET /data answers in the current state
LoadAnswer ==
    IF latest_csv # None /\ files[latest_csv].exists
    THEN IF files[latest_csv].header
         THEN Event("load", <<>>, 200, "",
                    ToJson(ReadCsv(files[latest_csv].rows)))
         ELSE Event("load", <<>>, 500, "EmptyDataError", <<>>)
    ELSE Event("load", <<>>, 404, "Run the analysis first.", <<>>)

\* C10, its last sentence alone: a failed run does not change what a load
\* returns. The code breaks it without the help of the CSV round trip.
C10_FailedRunKeepsLoadAnswer ==
    [][(IsRun(last') /\ last'.status = 500 /\ lastGood.any /\ ~removed)
          => LoadAnswer' = LoadAnswer]_vars

====
